---------------------------- MODULE Spec2Model ----------------------------
(***************************************************************************)
(* cargo-build: instruction emitters (functions.rs) writing to a          *)
(* swappable output sink.  Two sinks are modelled:                        *)
(*   - build_out.rs: the thread-local RefCell<Box<dyn Write>>             *)
(*   - cargo_build_out.rs: the process-wide RwLock<Box<dyn Write>>        *)
(*                                                                         *)
(* A byte string is a sequence of tokens.  A token is one character       *)
(* ("a", "b", "\n", the quote, ...), one byte that is not valid UTF-8     *)
(* (BadByte), or one string literal of the source taken as a whole        *)
(* ("cargo::rerun-if-changed=").                                          *)
(***************************************************************************)
EXTENDS Naturals, Sequences, FiniteSets

VARIABLES
    sink,       \* build_out::CARGO_BUILD_OUT: thread -> installed destination
    buf,        \* destination -> bytes the destination has received
    flushed,    \* destination -> the destination's flush has been called
    ncalls,     \* emitter calls made so far
    last,       \* the operation of the latest step: thread, kind, call, result
    base,       \* thread -> content of its destination when it was installed
    trace,      \* thread -> calls made by the thread since it installed it
    clean,      \* thread -> only this thread wrote there since, and no call failed
    everSet,    \* thread -> the thread has called set
    installed,  \* thread -> destination of its latest set or reset
    afterReset, \* thread -> its latest set or reset was a reset
    out,        \* cargo_build_out::CARGO_BUILD_OUT: the destination in the RwLock
    lock,       \* holder of the RwLock's write lock, or NoThread
    pc,         \* thread -> position inside CargoBuildOut::{set, reset, write}
    installing, \* thread -> destination its set/reset is installing
    chunk,      \* thread -> bytes its write call was given
    pending,    \* thread -> chunks of the current emitter call not yet written
    inflight,   \* thread -> destination whose write() the thread is inside
    lastAcq,    \* destination of the set/reset that acquired the lock last
    nops,       \* calls (set, reset, emitters, catches) made step by step so far
    calling,    \* thread -> the emitter call the thread is inside, if any
    poisoned    \* the RwLock is poisoned

vars == <<sink, buf, flushed, ncalls, last, base, trace, clean, everSet, installed, afterReset,
          out, lock, pc, installing, chunk, pending, inflight, lastAcq, nops,
          calling, poisoned>>

\* What set, reset and write of the process-wide sink leave alone.
localVars == <<sink, flushed, ncalls, last, base, trace, clean, everSet, installed,
               afterReset>>
sharedVars == <<out, lock, pc, installing, chunk, pending, inflight, lastAcq, nops,
                calling, poisoned>>

(***************************************************************************)
(* Bounds of the model.                                                    *)
(***************************************************************************)
MaxCalls == 3       \* emitter calls in one run of the thread-local sink
MaxOps == 3         \* calls in one run of the process-wide sink

Threads == {"t1", "t2"}
NoThread == "none"
Stdout == "stdout"
Captures == {"cap1", "cap2"}
Dests == {Stdout} \cup Captures

NL == "\n"
QUOTE == "\""
CR == "\r"
BadByte == "0xFF"           \* a byte that is not valid UTF-8
Replacement == "U+FFFD"     \* char::REPLACEMENT_CHARACTER

(***************************************************************************)
(* Helpers on byte strings.                                                *)
(***************************************************************************)
Contains(s, c) == \E i \in 1..Len(s) : s[i] = c

RECURSIVE Flatten(_)
Flatten(ss) == IF ss = <<>> THEN <<>> ELSE Head(ss) \o Flatten(Tail(ss))

\* Path::to_str: Some(text) only when every byte is valid UTF-8.
to_str_is_some(path) == ~Contains(path, BadByte)

\* Path::display: lossy, every invalid byte sequence becomes U+FFFD.
display(path) == [i \in 1..Len(path) |->
                    IF path[i] = BadByte THEN Replacement ELSE path[i]]

\* writeln!/write! on a Write: Write::write_fmt hands every non-empty piece
\* of the format (literal text, each argument) to write_all on its own.
write_fmt(pieces) == SelectSeq(pieces, LAMBDA p : p # <<>>)

(***************************************************************************)
(* The emitters of functions.rs.  Each yields its outcome: w, the          *)
(* write_fmt calls it made in order (each a sequence of chunks), and       *)
(* panic, whether an assert! stopped it.  A failed assert! ends the call: *)
(* what was written before it stays written.                               *)
(***************************************************************************)
Ok(w) == [w |-> w, panic |-> FALSE]
Panic == [w |-> <<>>, panic |-> TRUE]
Then(line, rest) == [w |-> <<line>> \o rest.w, panic |-> rest.panic]

\* A faulty variant of StrLoop (write! for writeln!), used to test the
\* properties below.
RECURSIVE StrLoop_without_newline(_, _)
StrLoop_without_newline(prefix, values) ==
    IF values = <<>> THEN Ok(<<>>)
    ELSE IF Contains(Head(values), NL) THEN Panic
    ELSE Then(write_fmt(<< <<prefix>>, Head(values) >>),
              StrLoop_without_newline(prefix, Tail(values)))

\* for v in values { assert!(!v.contains('\n')); writeln!(out, "<prefix>{v}") }
RECURSIVE StrLoop(_, _)
StrLoop(prefix, values) ==
    IF values = <<>> THEN Ok(<<>>)
    ELSE IF Contains(Head(values), NL) THEN Panic
    ELSE Then(write_fmt(<< <<prefix>>, Head(values), <<NL>> >>),
              StrLoop(prefix, Tail(values)))

\* A faulty variant of PathLoop (write! for writeln!), used to test the
\* properties below.
RECURSIVE PathLoop_without_newline(_, _)
PathLoop_without_newline(prefix, paths) ==
    IF paths = <<>> THEN Ok(<<>>)
    ELSE IF to_str_is_some(Head(paths)) /\ Contains(Head(paths), NL) THEN Panic
    ELSE Then(write_fmt(<< <<prefix>>, display(Head(paths)) >>),
              PathLoop_without_newline(prefix, Tail(paths)))

\* for p in paths { match p.to_str() { Some(s) => assert!(!s.contains('\n')),
\*                  None => {} }; writeln!(out, "<prefix>{}", p.display()) }
RECURSIVE PathLoop(_, _)
PathLoop(prefix, paths) ==
    IF paths = <<>> THEN Ok(<<>>)
    ELSE IF to_str_is_some(Head(paths)) /\ Contains(Head(paths), NL) THEN Panic
    ELSE Then(write_fmt(<< <<prefix>>, display(Head(paths)), <<NL>> >>),
              PathLoop(prefix, Tail(paths)))

rerun_if_changed(file_paths) == PathLoop("cargo::rerun-if-changed=", file_paths)
rerun_if_env_changed(env_vars) == StrLoop("cargo::rerun-if-env-changed=", env_vars)
rustc_link_arg(linker_flags) == StrLoop("cargo::rustc-link-arg=", linker_flags)
rustc_link_arg_cdylib(linker_flags) == StrLoop("cargo::rustc-link-arg-cdylib=", linker_flags)
rustc_link_arg_bins(linker_flags) == StrLoop("cargo::rustc-link-arg-bins=", linker_flags)
rustc_link_arg_tests(linker_flags) == StrLoop("cargo::rustc-link-arg-tests=", linker_flags)
rustc_link_arg_examples(linker_flags) == StrLoop("cargo::rustc-link-arg-examples=", linker_flags)
rustc_link_arg_benches(linker_flags) == StrLoop("cargo::rustc-link-arg-benches=", linker_flags)
rustc_link_lib(lib_names) == StrLoop("cargo::rustc-link-lib=", lib_names)
rustc_link_lib_dylib(lib_names) == StrLoop("cargo::rustc-link-lib=dylib=", lib_names)
rustc_link_lib_static(lib_names) == StrLoop("cargo::rustc-link-lib=static=", lib_names)
rustc_link_lib_framework(lib_names) == StrLoop("cargo::rustc-link-lib=framework=", lib_names)
rustc_link_search(lib_paths) == PathLoop("cargo::rustc-link-search=", lib_paths)
rustc_link_search_native(lib_paths) == PathLoop("cargo::rustc-link-search=native=", lib_paths)
rustc_link_search_dependency(lib_paths) == PathLoop("cargo::rustc-link-search=dependency=", lib_paths)
rustc_link_search_crate(lib_paths) == PathLoop("cargo::rustc-link-search=crate=", lib_paths)
rustc_link_search_framework(lib_paths) == PathLoop("cargo::rustc-link-search=framework=", lib_paths)
rustc_link_search_all(lib_paths) == PathLoop("cargo::rustc-link-search=all=", lib_paths)
rustc_flags(flags) == StrLoop("cargo::rustc-flags=", flags)
rustc_check_cfgs(cfg_names) ==
    LET RECURSIVE Loop(_)
        Loop(names) ==
            IF names = <<>> THEN Ok(<<>>)
            ELSE IF Contains(Head(names), NL) THEN Panic
            ELSE Then(write_fmt(<< <<"cargo::rustc-check-cfg=cfg(">>, Head(names),
                                   <<")", NL>> >>),
                      Loop(Tail(names)))
    IN Loop(cfg_names)

\* A faulty variant of rustc_link_arg_bin (the bin name is left out of the
\* line), used to test the properties below.
rustc_link_arg_bin_without_bin(bin, linker_flags) ==
    StrLoop("cargo::rustc-link-arg-bin=", linker_flags)

\* The two assert!s sit inside the loop over the flags: no flag, no check.
RECURSIVE rustc_link_arg_bin(_, _)
rustc_link_arg_bin(bin, linker_flags) ==
    IF linker_flags = <<>> THEN Ok(<<>>)
    ELSE IF Contains(bin, NL) THEN Panic
    ELSE IF Contains(Head(linker_flags), NL) THEN Panic
    ELSE Then(write_fmt(<< <<"cargo::rustc-link-arg-bin=">>, bin, <<"=">>,
                           Head(linker_flags), <<NL>> >>),
              rustc_link_arg_bin(bin, Tail(linker_flags)))

\* impl From<&str>, From<(&str, &str)>, From<(&str,)> for RustcCfg
from_str(name) == [name |-> name, value |-> <<>>]
from_pair(name, value) == [name |-> name, value |-> <<value>>]
from_tuple1(name) == [name |-> name, value |-> <<>>]

\* value: <<>> is None, <<v>> is Some(v)
rustc_cfg(name, value) ==
    IF Contains(name, NL) THEN Panic
    ELSE IF value = <<>>
         THEN Ok(<<write_fmt(<< <<"cargo::rustc-cfg=">>, name, <<NL>> >>)>>)
    ELSE IF Contains(value[1], NL) THEN Panic
    ELSE Ok(<<write_fmt(<< <<"cargo::rustc-cfg=">>, name, <<"=", QUOTE>>,
                           value[1], <<QUOTE, NL>> >>)>>)

\* values.map(|v| { assert!(..); format!("\"{}\"", v) }).collect().join(", ")
RECURSIVE QuoteAll(_)
QuoteAll(values) ==
    IF values = <<>> THEN <<>>
    ELSE <<(<<QUOTE>> \o Head(values) \o <<QUOTE>>)>> \o QuoteAll(Tail(values))

RECURSIVE join(_, _)
join(strs, sep) ==
    IF strs = <<>> THEN <<>>
    ELSE IF Len(strs) = 1 THEN Head(strs)
    ELSE Head(strs) \o sep \o join(Tail(strs), sep)

rustc_check_cfg(name, values) ==
    IF Contains(name, NL) THEN Panic
    ELSE IF \E i \in 1..Len(values) : Contains(values[i], NL) THEN Panic
    ELSE LET joined == join(QuoteAll(values), <<",", " ">>)
         IN IF joined = <<>>
            THEN Ok(<<write_fmt(<< <<"cargo::rustc-check-cfg=cfg(">>, name,
                                   <<")", NL>> >>)>>)
            ELSE Ok(<<write_fmt(<< <<"cargo::rustc-check-cfg=cfg(">>, name,
                                   <<",", " ", "values(">>, joined,
                                   <<")", ")", NL>> >>)>>)

rustc_env(var, value) ==
    IF Contains(var, NL) \/ Contains(value, NL) THEN Panic
    ELSE Ok(<<write_fmt(<< <<"cargo::rustc-env=">>, var, <<"=">>, value, <<NL>> >>)>>)

metadata(key, value) ==
    IF Contains(key, NL) \/ Contains(value, NL) THEN Panic
    ELSE Ok(<<write_fmt(<< <<"cargo::metadata=">>, key, <<"=">>, value, <<NL>> >>)>>)

\* str::lines: split after every "\n"; each piece loses its final "\n" and then
\* a "\r" that stood right before it; a last piece with no "\n" is kept as is.
strip_line(piece) ==
    IF piece # <<>> /\ piece[Len(piece)] = NL
    THEN LET l == SubSeq(piece, 1, Len(piece) - 1)
         IN IF l # <<>> /\ l[Len(l)] = CR THEN SubSeq(l, 1, Len(l) - 1) ELSE l
    ELSE piece

RECURSIVE lines(_)
lines(msg) ==
    IF msg = <<>> THEN <<>>
    ELSE IF ~Contains(msg, NL) THEN <<strip_line(msg)>>
    ELSE LET i == CHOOSE k \in 1..Len(msg) :
                      msg[k] = NL /\ \A j \in 1..(k - 1) : msg[j] # NL
         IN <<strip_line(SubSeq(msg, 1, i))>> \o lines(SubSeq(msg, i + 1, Len(msg)))

\* A faulty variant of MsgLoop (the prefix is written once, before the whole
\* message), used to test the properties below.
MsgLoop_prefix_once(prefix, msg) ==
    Ok(IF msg = <<>> THEN <<>> ELSE <<write_fmt(<< <<prefix>>, msg, <<NL>> >>)>>)

\* for line in msg.lines() { writeln!(out, "<prefix>{line}") }
MsgLoop(prefix, msg) ==
    Ok([i \in 1..Len(lines(msg)) |->
            write_fmt(<< <<prefix>>, lines(msg)[i], <<NL>> >>)])

error(msg) == MsgLoop("cargo::error=", msg)
warning(msg) == MsgLoop("cargo::warning=", msg)

\* println!("<line>"), the way of the crate docs to give an instruction
\* without this crate: the line and a newline go to standard output.
println(line) == write_fmt(<<line, <<NL>> >>)

(***************************************************************************)
(* The macros of macros.rs.  A macro takes format arguments; here every    *)
(* segment is given as ("{}", s), s being the text it formats to.  A       *)
(* segment of a list macro is <<>> when it holds no token (the segment     *)
(* after a trailing `;`) and <<s>> otherwise.  No macro has an assert!.    *)
(***************************************************************************)
\* write!(out, "<literal>")
write_literal(literal) == write_fmt(<< <<literal>> >>)

\* A faulty variant of MacroLoop (no test for a segment without tokens), used
\* to test the properties below.
RECURSIVE MacroLoop_every_segment(_, _)
MacroLoop_every_segment(head, segments) ==
    IF segments = <<>> THEN Ok(<<>>)
    ELSE LET rest == MacroLoop_every_segment(head, Tail(segments))
             s == IF Head(segments) = <<>> THEN <<>> ELSE Head(segments)[1]
         IN [w |-> head \o <<write_fmt(<<s, <<NL>> >>)>> \o rest.w,
             panic |-> rest.panic]

\* $( if const { !matches!(stringify!(..).as_bytes(), b"") }
\*        { <head: the write!s of the prefix>; writeln!(out, "{}", s) } )*
RECURSIVE MacroLoop(_, _)
MacroLoop(head, segments) ==
    IF segments = <<>> THEN Ok(<<>>)
    ELSE IF Head(segments) = <<>> THEN MacroLoop(head, Tail(segments))
    ELSE LET rest == MacroLoop(head, Tail(segments))
         IN [w |-> head \o <<write_fmt(<<Head(segments)[1], <<NL>> >>)>> \o rest.w,
             panic |-> rest.panic]

rerun_if_changed_macro(segments) ==
    MacroLoop(<<write_literal("cargo::rerun-if-changed=")>>, segments)

rerun_if_env_changed_macro(segments) ==
    MacroLoop(<<write_literal("cargo::rerun-if-env-changed=")>>, segments)

\* target: "" for the arm without a target, else benches, bins, bin, cdylib,
\* examples, tests; bin_name is read by the `bin` arm only.
rustc_link_arg_macro(target, bin_name, segments) ==
    CASE target = "" ->
            MacroLoop(<<write_literal("cargo::rustc-link-arg=")>>, segments)
      [] target = "benches" ->
            MacroLoop(<<write_literal("cargo::rustc-link-arg-benches=")>>, segments)
      [] target = "bins" ->
            MacroLoop(<<write_literal("cargo::rustc-link-arg-bins=")>>, segments)
      [] target = "bin" ->
            MacroLoop(<<write_literal("cargo::rustc-link-arg-bin="),
                        write_fmt(<<bin_name, <<"=">> >>)>>, segments)
      [] target = "cdylib" ->
            MacroLoop(<<write_literal("cargo::rustc-link-arg-cdylib=")>>, segments)
      [] target = "examples" ->
            MacroLoop(<<write_literal("cargo::rustc-link-arg-examples=")>>, segments)
      [] target = "tests" ->
            MacroLoop(<<write_literal("cargo::rustc-link-arg-tests=")>>, segments)

\* A faulty variant of write_mod_rem (only the first of the remaining
\* modifiers is written), used to test the properties below.
write_mod_rem_first_only(mods) ==
    IF mods = <<>> THEN <<>>
    ELSE <<write_fmt(<< <<",">>, <<Head(mods)>> >>)>>

\* $( write!(out, ",{}", $mod_rem) )*
RECURSIVE write_mod_rem(_)
write_mod_rem(mods) ==
    IF mods = <<>> THEN <<>>
    ELSE <<write_fmt(<< <<",">>, <<Head(mods)>> >>)>> \o write_mod_rem(Tail(mods))

\* The closure of the static, dylib and framework arms: the first modifier is
\* itself the format string of its write!.
closure(kind_literal, mods) ==
    <<write_literal(kind_literal)>>
    \o (IF mods = <<>> THEN <<>>
        ELSE <<write_literal(":"), write_literal(Head(mods))>>
             \o write_mod_rem(Tail(mods)))
    \o <<write_literal("=")>>

\* kind: "" for the arm without a kind, else static, dylib, framework; mods
\* are the modifiers, each one token.
rustc_link_lib_macro(kind, mods, segments) ==
    CASE kind = "" ->
            MacroLoop(<<write_literal("cargo::rustc-link-lib=")>>, segments)
      [] kind = "static" ->
            MacroLoop(closure("cargo::rustc-link-lib=static", mods), segments)
      [] kind = "dylib" ->
            MacroLoop(closure("cargo::rustc-link-lib=dylib", mods), segments)
      [] kind = "framework" ->
            MacroLoop(closure("cargo::rustc-link-lib=framework", mods), segments)

\* kind: "" for the arm without a kind; `kind :` expands to `kind =`.
rustc_link_search_macro(kind, segments) ==
    CASE kind = "" ->
            MacroLoop(<<write_literal("cargo::rustc-link-search=")>>, segments)
      [] kind = "framework" ->
            MacroLoop(<<write_literal("cargo::rustc-link-search=framework=")>>, segments)
      [] kind = "native" ->
            MacroLoop(<<write_literal("cargo::rustc-link-search=native=")>>, segments)
      [] kind = "crate" ->
            MacroLoop(<<write_literal("cargo::rustc-link-search=crate=")>>, segments)
      [] kind = "dependency" ->
            MacroLoop(<<write_literal("cargo::rustc-link-search=dependency=")>>, segments)
      [] kind = "all" ->
            MacroLoop(<<write_literal("cargo::rustc-link-search=all=")>>, segments)

\* A faulty variant of rustc_cfg_macro (the value without its quotes), used to
\* test the properties below.
rustc_cfg_macro_unquoted(cfg_name, value) ==
    IF value = <<>>
    THEN Ok(<<write_fmt(<< <<"cargo::rustc-cfg=">>, cfg_name, <<NL>> >>)>>)
    ELSE Ok(<<write_fmt(<< <<"cargo::rustc-cfg=">>, cfg_name, <<"=">>,
                           value[1], <<NL>> >>)>>)

\* value: <<>> for the arm ($cfg_name), <<v>> for ($cfg_name = $cfg_value)
rustc_cfg_macro(cfg_name, value) ==
    IF value = <<>>
    THEN Ok(<<write_fmt(<< <<"cargo::rustc-cfg=">>, cfg_name, <<NL>> >>)>>)
    ELSE Ok(<<write_fmt(<< <<"cargo::rustc-cfg=">>, cfg_name, <<"=", QUOTE>>,
                           value[1], <<QUOTE, NL>> >>)>>)

\* $( write!(values, "\"{}\", ", $cfg_value) )+
RECURSIVE write_values(_)
write_values(cfg_values) ==
    IF cfg_values = <<>> THEN <<>>
    ELSE <<QUOTE>> \o Head(cfg_values) \o <<QUOTE, ",", " ">>
         \o write_values(Tail(cfg_values))

\* A faulty variant of pop (nothing is removed), used to test the properties
\* below.
pop_nothing(s) == s

\* String::pop: the string without its last char.
pop(s) == IF s = <<>> THEN s ELSE SubSeq(s, 1, Len(s) - 1)

\* The arms ($cfg_name), ($cfg_name : [v, ..]) and ($cfg_name : v, ..); the
\* last two hold the same code and take one value at least.
rustc_check_cfg_macro(cfg_name, cfg_values) ==
    IF cfg_values = <<>>
    THEN Ok(<<write_fmt(<< <<"cargo::rustc-check-cfg=cfg(">>, cfg_name,
                           <<")", NL>> >>)>>)
    ELSE LET values == pop(pop(write_values(cfg_values)))
         IN Ok(<<write_fmt(<< <<"cargo::rustc-check-cfg=cfg(">>, cfg_name,
                              <<",", " ", "values(">> >>),
                 write_fmt(<<values, <<")", ")", NL>> >>)>>)

\* The arm ($( $cfg_name ),*): one line per name.
rustc_check_cfgs_macro(cfg_names) ==
    Ok([i \in 1..Len(cfg_names) |->
            write_fmt(<< <<"cargo::rustc-check-cfg=cfg(">>, cfg_names[i],
                         <<")", NL>> >>)])

rustc_env_macro(env_name, env_value) ==
    Ok(<<write_fmt(<< <<"cargo::rustc-env=">>, env_name, <<"=">>, env_value,
                      <<NL>> >>)>>)

metadata_macro(meta_key, meta_value) ==
    Ok(<<write_fmt(<< <<"cargo::metadata=">>, meta_key, <<"=">>, meta_value,
                      <<NL>> >>)>>)

\* write!(out, "cargo::warning="); writeln!(out, "{}", s)
warning_macro(s) ==
    Ok(<<write_literal("cargo::warning="), write_fmt(<<s, <<NL>> >>)>>)

error_macro(s) ==
    Ok(<<write_literal("cargo::error="), write_fmt(<<s, <<NL>> >>)>>)

(***************************************************************************)
(* A call of an emitter: fn names the function, name is its first string   *)
(* argument where it has one (bin, cfg name, env var, key), vals are its   *)
(* values in order (an Option is a list of at most one value).             *)
(***************************************************************************)
Call(fn, name, vals) == [fn |-> fn, name |-> name, vals |-> vals]

\* A call of a macro: arm names the arm taken (the target or kind, "" when
\* the macro is given none), name and vals are as above, mods are the
\* modifiers of rustc_link_lib!.
MacroCall(fn, arm, name, mods, vals) ==
    [fn |-> fn, arm |-> arm, name |-> name, mods |-> mods, vals |-> vals]

StrListFns == {"rerun_if_env_changed", "rustc_link_arg", "rustc_link_arg_cdylib",
               "rustc_link_arg_bins", "rustc_link_arg_tests",
               "rustc_link_arg_examples", "rustc_link_arg_benches",
               "rustc_link_lib", "rustc_link_lib_dylib", "rustc_link_lib_static",
               "rustc_link_lib_framework", "rustc_flags", "rustc_check_cfgs"}
PathListFns == {"rerun_if_changed", "rustc_link_search", "rustc_link_search_native",
                "rustc_link_search_dependency", "rustc_link_search_crate",
                "rustc_link_search_framework", "rustc_link_search_all"}
ListFns == StrListFns \cup PathListFns

Outcome(c) ==
    CASE c.fn = "rerun_if_changed" -> rerun_if_changed(c.vals)
      [] c.fn = "rerun_if_env_changed" -> rerun_if_env_changed(c.vals)
      [] c.fn = "rustc_link_arg" -> rustc_link_arg(c.vals)
      [] c.fn = "rustc_link_arg_cdylib" -> rustc_link_arg_cdylib(c.vals)
      [] c.fn = "rustc_link_arg_bin" -> rustc_link_arg_bin(c.name, c.vals)
      [] c.fn = "rustc_link_arg_bins" -> rustc_link_arg_bins(c.vals)
      [] c.fn = "rustc_link_arg_tests" -> rustc_link_arg_tests(c.vals)
      [] c.fn = "rustc_link_arg_examples" -> rustc_link_arg_examples(c.vals)
      [] c.fn = "rustc_link_arg_benches" -> rustc_link_arg_benches(c.vals)
      [] c.fn = "rustc_link_lib" -> rustc_link_lib(c.vals)
      [] c.fn = "rustc_link_lib_dylib" -> rustc_link_lib_dylib(c.vals)
      [] c.fn = "rustc_link_lib_static" -> rustc_link_lib_static(c.vals)
      [] c.fn = "rustc_link_lib_framework" -> rustc_link_lib_framework(c.vals)
      [] c.fn = "rustc_link_search" -> rustc_link_search(c.vals)
      [] c.fn = "rustc_link_search_native" -> rustc_link_search_native(c.vals)
      [] c.fn = "rustc_link_search_dependency" -> rustc_link_search_dependency(c.vals)
      [] c.fn = "rustc_link_search_crate" -> rustc_link_search_crate(c.vals)
      [] c.fn = "rustc_link_search_framework" -> rustc_link_search_framework(c.vals)
      [] c.fn = "rustc_link_search_all" -> rustc_link_search_all(c.vals)
      [] c.fn = "rustc_flags" -> rustc_flags(c.vals)
      [] c.fn = "rustc_cfg" -> rustc_cfg(c.name, c.vals)
      [] c.fn = "rustc_cfg(&str)" ->
            rustc_cfg(from_str(c.name).name, from_str(c.name).value)
      [] c.fn = "rustc_cfg((&str, &str))" ->
            rustc_cfg(from_pair(c.name, c.vals[1]).name,
                      from_pair(c.name, c.vals[1]).value)
      [] c.fn = "rustc_cfg((&str,))" ->
            rustc_cfg(from_tuple1(c.name).name, from_tuple1(c.name).value)
      [] c.fn = "rustc_check_cfg" -> rustc_check_cfg(c.name, c.vals)
      [] c.fn = "rustc_check_cfgs" -> rustc_check_cfgs(c.vals)
      [] c.fn = "rustc_env" -> rustc_env(c.name, c.vals[1])
      [] c.fn = "metadata" -> metadata(c.name, c.vals[1])
      [] c.fn = "error" -> error(c.vals[1])
      [] c.fn = "warning" -> warning(c.vals[1])
      [] c.fn = "rerun_if_changed!" -> rerun_if_changed_macro(c.vals)
      [] c.fn = "rerun_if_env_changed!" -> rerun_if_env_changed_macro(c.vals)
      [] c.fn = "rustc_link_arg!" -> rustc_link_arg_macro(c.arm, c.name, c.vals)
      [] c.fn = "rustc_link_lib!" -> rustc_link_lib_macro(c.arm, c.mods, c.vals)
      [] c.fn = "rustc_link_search!" -> rustc_link_search_macro(c.arm, c.vals)
      [] c.fn = "rustc_cfg!" -> rustc_cfg_macro(c.name, c.vals)
      [] c.fn = "rustc_check_cfg!" -> rustc_check_cfg_macro(c.name, c.vals)
      [] c.fn = "rustc_check_cfgs!" -> rustc_check_cfgs_macro(c.vals)
      [] c.fn = "rustc_env!" -> rustc_env_macro(c.name, c.vals[1])
      [] c.fn = "metadata!" -> metadata_macro(c.name, c.vals[1])
      [] c.fn = "warning!" -> warning_macro(c.vals[1])
      [] c.fn = "error!" -> error_macro(c.vals[1])

\* All bytes a call hands to the sink, in order.
Bytes(o) == Flatten(Flatten(o.w))

(***************************************************************************)
(* The thread-local sink of build_out.rs.                                  *)
(***************************************************************************)
\* Faulty variants of the sink's operations, used to test the properties below.
set_every_thread(s, t, wr) == [u \in DOMAIN s |-> wr]
reset_keeps_destination(s, t) == s
write_in_front(b, d, bytes) == [b EXCEPT ![d] = bytes \o @]
write_to_every_destination(b, d, bytes) == [e \in DOMAIN b |-> b[e] \o bytes]

\* build_out::set: CARGO_BUILD_OUT.set(Box::new(wr)) replaces this thread's cell.
set(s, t, wr) == [s EXCEPT ![t] = wr]

\* A faulty variant of reset (one cell for all threads), used to test the
\* properties below.
reset_every_thread(s, t) == [u \in DOMAIN s |-> Stdout]

\* build_out::reset: CARGO_BUILD_OUT.set(Box::new(stdout())).
reset(s, t) == [s EXCEPT ![t] = Stdout]

\* Write::write of the installed destination: the bytes are appended to it.
write(b, d, bytes) == [b EXCEPT ![d] = @ \o bytes]

\* CARGO_BUILD_OUT.with_borrow_mut(|out| writeln!(out, ..)): every write of the
\* call goes to the destination in the calling thread's cell.
with_borrow_mut(s, b, t, o) == write(b, s[t], Bytes(o))

NoCall == Call("none", <<>>, <<>>)

Set(t, d) ==
    /\ sink' = set(sink, t, d)
    /\ last' = [t |-> t, op |-> "set", call |-> NoCall, panic |-> FALSE]
    /\ base' = [base EXCEPT ![t] = buf[d]]
    /\ trace' = [trace EXCEPT ![t] = <<>>]
    /\ clean' = [clean EXCEPT ![t] = TRUE]
    /\ everSet' = [everSet EXCEPT ![t] = TRUE]
    /\ installed' = [installed EXCEPT ![t] = d]
    /\ afterReset' = [afterReset EXCEPT ![t] = FALSE]
    /\ UNCHANGED <<buf, flushed, ncalls>>
    /\ UNCHANGED sharedVars

Reset(t) ==
    /\ sink' = reset(sink, t)
    /\ last' = [t |-> t, op |-> "reset", call |-> NoCall, panic |-> FALSE]
    /\ base' = [base EXCEPT ![t] = buf[Stdout]]
    /\ trace' = [trace EXCEPT ![t] = <<>>]
    /\ clean' = [clean EXCEPT ![t] = TRUE]
    /\ installed' = [installed EXCEPT ![t] = Stdout]
    /\ afterReset' = [afterReset EXCEPT ![t] = TRUE]
    /\ UNCHANGED <<buf, flushed, ncalls, everSet>>
    /\ UNCHANGED sharedVars

\* One call of an emitter of functions.rs on thread t.
DoEmit(t, c) ==
    LET o == Outcome(c) IN
    /\ buf' = with_borrow_mut(sink, buf, t, o)
    /\ ncalls' = ncalls + 1
    /\ last' = [t |-> t, op |-> "emit", call |-> c, panic |-> o.panic]
    /\ trace' = [trace EXCEPT ![t] = Append(@, c)]
    /\ clean' = [u \in Threads |->
                    IF u = t THEN clean[u] /\ ~o.panic
                    ELSE clean[u] /\ (sink[u] # sink[t] \/ Bytes(o) = <<>>)]
    /\ UNCHANGED <<sink, flushed, base, everSet, installed, afterReset>>
    /\ UNCHANGED sharedVars

(***************************************************************************)
(* Inputs.                                                                 *)
(***************************************************************************)
MaxVals == 2        \* longest list of values

SeqsUpTo(S, n) == UNION {[1..k -> S] : k \in 0..n}

\* Text: empty, plain, a newline alone, at the end, in the middle.
StrValues == {<<>>, <<"a">>, <<"b">>, <<NL>>, <<"a", NL>>, <<"b", NL, "c">>}
\* Paths: the same, and paths that are not valid UTF-8, without and with a
\* newline.
PathValues == StrValues \cup {<<BadByte>>, <<"a", BadByte>>,
                              <<BadByte, NL>>, <<"a", NL, BadByte>>}
StrLists == SeqsUpTo(StrValues, MaxVals)
PathLists == SeqsUpTo(PathValues, MaxVals)

FmtCalls ==
    {Call(f, <<>>, vs) : f \in StrListFns, vs \in StrLists}
    \cup {Call(f, <<>>, vs) : f \in PathListFns, vs \in PathLists}
    \cup {Call("rustc_link_arg_bin", n, vs) : n \in StrValues, vs \in StrLists}
    \cup {Call("rustc_cfg", n, vs) : n \in StrValues, vs \in SeqsUpTo(StrValues, 1)}
    \cup {Call("rustc_check_cfg", n, vs) : n \in StrValues, vs \in StrLists}
    \cup {Call(f, n, <<v>>) : f \in {"rustc_env", "metadata"},
                               n \in StrValues, v \in StrValues}

\* The calls of a run of the sink: two lines, one line, a list whose second
\* value is refused, an empty list.
SinkCalls ==
    { Call("rerun_if_changed", <<>>, << <<"a">>, <<"b">> >>),
      Call("rustc_env", <<"a">>, << <<"b">> >>),
      Call("rerun_if_env_changed", <<>>, << <<"a">>, <<"b", NL, "c">> >>),
      Call("rustc_link_arg", <<>>, <<>>) }

Emit(t) == ncalls < MaxCalls /\ \E c \in SinkCalls : DoEmit(t, c)

FmtEmit(t) == ncalls = 0 /\ \E c \in FmtCalls : DoEmit(t, c)

SharedIdle ==
    /\ out = Stdout
    /\ lock = NoThread
    /\ pc = [t \in Threads |-> "idle"]
    /\ installing = [t \in Threads |-> Stdout]
    /\ chunk = [t \in Threads |-> <<>>]
    /\ pending = [t \in Threads |-> <<>>]
    /\ inflight = [t \in Threads |-> NoThread]
    /\ lastAcq = Stdout
    /\ nops = 0
    /\ calling = [t \in Threads |-> NoCall]
    /\ poisoned = FALSE

LocalIdle ==
    /\ sink = [t \in Threads |-> Stdout]
    /\ flushed = [d \in Dests |-> FALSE]
    /\ ncalls = 0
    /\ last = [t |-> NoThread, op |-> "init", call |-> NoCall, panic |-> FALSE]
    /\ base = [t \in Threads |-> buf[Stdout]]
    /\ trace = [t \in Threads |-> <<>>]
    /\ clean = [t \in Threads |-> TRUE]
    /\ everSet = [t \in Threads |-> FALSE]
    /\ installed = [t \in Threads |-> Stdout]
    /\ afterReset = [t \in Threads |-> FALSE]

Init ==
    /\ buf = [d \in Dests |-> <<>>]
    /\ LocalIdle
    /\ SharedIdle

Next ==
    \E t \in Threads :
        \/ \E d \in Captures : Set(t, d)
        \/ Reset(t)
        \/ Emit(t)

Spec == Init /\ [][Next]_vars

\* The format check: one emitter call with any arguments, to a destination
\* that is empty or already holds a line.
OldLine == <<"cargo::warning=", "a", NL>>

InitFmt ==
    /\ buf \in {[d \in Dests |-> <<>>], [d \in Dests |-> OldLine]}
    /\ LocalIdle
    /\ SharedIdle

NextFmt ==
    \E t \in Threads :
        \/ \E d \in Captures : ncalls = 0 /\ Set(t, d)
        \/ FmtEmit(t)

SpecFmt == InitFmt /\ [][NextFmt]_vars

\* The surface check: one call of a function or of a macro, with any
\* arguments.
MaxMsg == 3         \* longest message of error and warning

\* Messages: every text of "a", "\n" and "\r" up to MaxMsg characters.
MsgValues == SeqsUpTo({"a", NL, CR}, MaxMsg)

\* Texts the format arguments of a macro format to: empty, plain, with a
\* newline.
MacroTexts == {<<>>, <<"a">>, <<"b">>, <<"b", NL, "c">>}
Segments == {<<>>} \cup {<<s>> : s \in MacroTexts}
SegmentLists == SeqsUpTo(Segments, MaxVals + 1)
ModifierLists == {<<>>, <<"+whole-archive">>, <<"+verbatim", "+bundle">>,
                  <<"+whole-archive", "+verbatim", "+bundle">>}

\* Arguments of rustc_link_lib_static, _dylib, _framework, in the forms of
\* their docs: NAME and :MODIFIERS=NAME[:RENAME].
LibValues == {<<"a">>, <<":", "+whole-archive", "=", "a">>,
              <<":", "+whole-archive", "=", "a", ":", "b">>}

LinkArgTargets == {"", "benches", "bins", "bin", "cdylib", "examples", "tests"}
LinkLibKinds == {"", "static", "dylib", "framework"}
LinkSearchKinds == {"", "framework", "native", "crate", "dependency", "all"}

FunctionCalls ==
    {MacroCall(f, "", <<>>, <<>>, <<m>>) : f \in {"error", "warning"}, m \in MsgValues}
    \cup {MacroCall(f, "", n, <<>>, <<>>) :
              f \in {"rustc_cfg(&str)", "rustc_cfg((&str,))"}, n \in StrValues}
    \cup {MacroCall("rustc_cfg((&str, &str))", "", n, <<>>, <<v>>) :
              n \in StrValues, v \in StrValues}
    \cup {MacroCall("rustc_check_cfg", "", n, <<>>, vs) :
              n \in StrValues, vs \in StrLists}
    \cup {MacroCall("rustc_link_arg_bin", "", n, <<>>, vs) :
              n \in StrValues, vs \in StrLists}
    \cup {MacroCall(f, "", <<>>, <<>>, vs) :
              f \in {"rustc_link_lib_static", "rustc_link_lib_dylib",
                     "rustc_link_lib_framework"},
              vs \in SeqsUpTo(LibValues, MaxVals)}

MacroCalls ==
    {MacroCall(f, "", <<>>, <<>>, ss) :
        f \in {"rerun_if_changed!", "rerun_if_env_changed!"}, ss \in SegmentLists}
    \cup {MacroCall("rustc_link_arg!", k, IF k = "bin" THEN <<"a">> ELSE <<>>, <<>>, ss) :
              k \in LinkArgTargets, ss \in SegmentLists}
    \cup {MacroCall("rustc_link_lib!", k, <<>>, ms, ss) :
              k \in LinkLibKinds \ {""}, ms \in ModifierLists, ss \in SegmentLists}
    \cup {MacroCall("rustc_link_lib!", "", <<>>, <<>>, ss) : ss \in SegmentLists}
    \cup {MacroCall("rustc_link_search!", k, <<>>, <<>>, ss) :
              k \in LinkSearchKinds, ss \in SegmentLists}
    \cup {MacroCall("rustc_cfg!", "", n, <<>>, vs) :
              n \in MacroTexts, vs \in SeqsUpTo(MacroTexts, 1)}
    \cup {MacroCall("rustc_check_cfg!", "", n, <<>>, vs) :
              n \in MacroTexts, vs \in SeqsUpTo(MacroTexts, MaxVals)}
    \cup {MacroCall("rustc_check_cfgs!", "", <<>>, <<>>, vs) :
              vs \in SeqsUpTo(MacroTexts, MaxVals)}
    \cup {MacroCall(f, "", n, <<>>, <<v>>) :
              f \in {"rustc_env!", "metadata!"}, n \in MacroTexts, v \in MacroTexts}
    \cup {MacroCall(f, "", <<>>, <<>>, <<s>>) :
              f \in {"warning!", "error!"}, s \in MacroTexts}

FunctionEmit(t) == ncalls = 0 /\ \E c \in FunctionCalls : DoEmit(t, c)

MacroEmit(t) == ncalls = 0 /\ \E c \in MacroCalls : DoEmit(t, c)

NextSurface ==
    \E t \in Threads :
        \/ \E d \in Captures : ncalls = 0 /\ Set(t, d)
        \/ FunctionEmit(t)
        \/ MacroEmit(t)

SpecSurface == InitFmt /\ [][NextSurface]_vars

(***************************************************************************)
(* The thread-local sink, one write!/writeln! at a time: threads run       *)
(* emitter calls side by side, each write!/writeln! of a call being one    *)
(* append to the destination of its thread, and a destination may refuse   *)
(* a write.                                                                *)
(***************************************************************************)
\* A faulty variant of expect (the error is dropped and the call goes on),
\* used to test the properties below.
expect_ignores_error(ok) == "emit"

\* .expect(ERR_MSG): the thread goes on when the write returned Ok and panics
\* when it returned Err.
expect(ok) == IF ok THEN "emit" ELSE "panicked"

\* RefCell: the cell of a thread is mutably borrowed while the thread is
\* inside with_borrow_mut / borrow_mut, that is inside a write!/writeln! of
\* an emitter (its format arguments and the destination's write included).
borrowed(t) == pc[t] = "emit"

Did(t, op, panic) == [t |-> t, op |-> op, call |-> NoCall, panic |-> panic]

\* LocalKey<RefCell<_>>::set(value): *cell.borrow_mut() = value, which panics
\* with BorrowMutError when the cell is borrowed.
Install(t, d, op) ==
    /\ pc[t] \in {"idle", "emit"} /\ nops < MaxOps
    /\ nops' = nops + 1
    /\ installing' = [installing EXCEPT ![t] = d]
    /\ IF borrowed(t)
       THEN /\ pc' = [pc EXCEPT ![t] = "panicked"]
            /\ pending' = [pending EXCEPT ![t] = <<>>]
            /\ last' = Did(t, op, TRUE)
            /\ UNCHANGED sink
       ELSE /\ sink' = IF op = "set" THEN set(sink, t, d) ELSE reset(sink, t)
            /\ last' = Did(t, op, FALSE)
            /\ UNCHANGED <<pc, pending>>
    /\ UNCHANGED <<buf, flushed, ncalls, base, trace, clean, everSet, installed,
                   afterReset, out, lock, chunk, inflight, lastAcq, calling, poisoned>>

\* build_out::set(wr), called by the thread between two emitter calls, or
\* from inside one: by the write method of the installed destination or by a
\* format argument of a macro.
StepSet(t, d) == Install(t, d, "set")

\* build_out::reset()
StepReset(t) == Install(t, Stdout, "reset")

\* The calls of a run: the macro of main.rs, the same warning by the
\* function, a function with two values, a function whose second value is
\* refused.
StepCalls ==
    { MacroCall("warning!", "", <<>>, <<>>, << <<"a">> >>),
      MacroCall("warning", "", <<>>, <<>>, << <<"b">> >>),
      MacroCall("rustc_link_arg", "", <<>>, <<>>, << <<"a">>, <<"b">> >>),
      MacroCall("rerun_if_env_changed", "", <<>>, <<>>, << <<"a">>, <<"b", NL, "c">> >>) }

\* A thread enters an emitter call: its write!s and writeln!s lie ahead.  The
\* call may be made from inside an emission of the same thread (by a format
\* argument of a macro, by the write method of the installed destination):
\* the cell is borrowed then, and the with_borrow_mut / borrow_mut of the
\* call (every call of StepCalls borrows for its first line) panics with
\* BorrowMutError, which unwinds through the emission around it.
StepCall(t, c) ==
    /\ pc[t] \in {"idle", "emit"} /\ nops < MaxOps
    /\ nops' = nops + 1
    /\ IF borrowed(t)
       THEN /\ pc' = [pc EXCEPT ![t] = "panicked"]
            /\ pending' = [pending EXCEPT ![t] = <<>>]
            /\ last' = [t |-> t, op |-> "call", call |-> c, panic |-> TRUE]
            /\ UNCHANGED calling
       ELSE /\ calling' = [calling EXCEPT ![t] = c]
            /\ pending' = [pending EXCEPT ![t] = Outcome(c).w]
            /\ pc' = [pc EXCEPT ![t] = "emit"]
            /\ last' = [t |-> t, op |-> "call", call |-> c, panic |-> FALSE]
    /\ UNCHANGED <<sink, buf, flushed, ncalls, base, trace, clean, everSet,
                   installed, afterReset, out, lock, installing, chunk, inflight,
                   lastAcq, poisoned>>

\* The next write!/writeln! of the call: the destination takes every piece.
StepWrite(t) ==
    /\ pc[t] = "emit" /\ pending[t] # <<>>
    /\ buf' = write(buf, sink[t], Flatten(Head(pending[t])))
    /\ pending' = [pending EXCEPT ![t] = Tail(@)]
    /\ pc' = [pc EXCEPT ![t] = expect(TRUE)]
    /\ last' = Did(t, "write", FALSE)
    /\ UNCHANGED <<sink, flushed, ncalls, base, trace, clean, everSet, installed,
                   afterReset, out, lock, installing, chunk, inflight, lastAcq, nops,
                   calling, poisoned>>

\* The destination answers a write with ErrorKind::Interrupted: write_all
\* calls write again with the same bytes.
StepInterrupted(t) ==
    /\ pc[t] = "emit" /\ pending[t] # <<>>
    /\ last' = Did(t, "interrupted", FALSE)
    /\ UNCHANGED <<sink, buf, flushed, ncalls, base, trace, clean, everSet,
                   installed, afterReset>>
    /\ UNCHANGED sharedVars

\* The destination refuses piece k of the next write!/writeln!: the pieces
\* before it are written, write_all and write_fmt return the error, and
\* .expect(ERR_MSG) decides how the call goes on.
StepRejected(t) ==
    /\ pc[t] = "emit" /\ pending[t] # <<>>
    /\ \E k \in 1..Len(Head(pending[t])) :
          buf' = write(buf, sink[t], Flatten(SubSeq(Head(pending[t]), 1, k - 1)))
    /\ pc' = [pc EXCEPT ![t] = expect(FALSE)]
    /\ pending' = [pending EXCEPT ![t] = IF pc'[t] = "panicked" THEN <<>> ELSE Tail(@)]
    /\ last' = Did(t, "rejected", pc'[t] = "panicked")
    /\ UNCHANGED <<sink, flushed, ncalls, base, trace, clean, everSet, installed,
                   afterReset, out, lock, installing, chunk, inflight, lastAcq, nops,
                   calling, poisoned>>

\* The call has made its writes: it returns, or the assert! on the value
\* after the last written line stops it.
StepReturn(t) ==
    /\ pc[t] = "emit" /\ pending[t] = <<>>
    /\ pc' = [pc EXCEPT ![t] = IF Outcome(calling[t]).panic THEN "panicked" ELSE "idle"]
    /\ last' = [t |-> t, op |-> "return", call |-> calling[t],
                panic |-> Outcome(calling[t]).panic]
    /\ UNCHANGED <<sink, buf, flushed, ncalls, base, trace, clean, everSet,
                   installed, afterReset, out, lock, installing, chunk, pending,
                   inflight, lastAcq, nops, calling, poisoned>>

\* A faulty variant of unwind (the borrow outlives the panic), used to test
\* the properties below.
unwind_keeps_borrow(at) == "emit"

\* A panic unwinds out of with_borrow_mut / the scope of borrow_mut: the
\* RefMut is dropped on the way, the cell keeps its value and is not
\* borrowed any more.
unwind(at) == "idle"

\* The caller catches the panic of a failed call (catch_unwind, or a test
\* harness) and the thread goes on; clean records that a call of it failed.
StepCatch(t) ==
    /\ pc[t] = "panicked" /\ nops < MaxOps
    /\ nops' = nops + 1
    /\ pc' = [pc EXCEPT ![t] = unwind(pc[t])]
    /\ clean' = [clean EXCEPT ![t] = FALSE]
    /\ last' = Did(t, "catch", FALSE)
    /\ UNCHANGED <<sink, buf, flushed, ncalls, base, trace, everSet, installed,
                   afterReset, out, lock, installing, chunk, pending, inflight,
                   lastAcq, calling, poisoned>>

NextSteps ==
    \E t \in Threads :
        \/ \E d \in Captures : StepSet(t, d)
        \/ StepReset(t)
        \/ \E c \in StepCalls : StepCall(t, c)
        \/ StepWrite(t)
        \/ StepInterrupted(t)
        \/ StepRejected(t)
        \/ StepReturn(t)
        \/ StepCatch(t)

SpecSteps == Init /\ [][NextSteps]_vars

(***************************************************************************)
(* The process-wide sink of cargo_build_out.rs: one destination in an     *)
(* RwLock.  set, reset and write take the write lock, act, and release it *)
(* when the guard goes out of scope at the end of the function.           *)
(***************************************************************************)
\* A faulty variant of the lock (a lock that never waits), used to test the
\* properties below.
write_lock_never_waits(l) == TRUE

\* RwLock::write: granted when nobody holds the lock.
write_lock_is_free(l) == l = NoThread

\* A faulty variant of the assignment, used to test the properties below.
store_keeps_old(old, new) == old

\* *out = Box::new(..)
store(old, new) == new

Begin(t, at) ==
    /\ pc[t] = "idle" /\ nops < MaxOps
    /\ pc' = [pc EXCEPT ![t] = at]
    /\ nops' = nops + 1

\* A faulty variant of poison (a guard dropped by a panic leaves no mark),
\* used to test the properties below.
poison_never(flag) == flag

\* A write guard dropped while its thread panics poisons the lock.
poison(flag) == TRUE

\* self.0.write() returns Ok(guard): the lock is free and not poisoned.
Acquire(t, at, to) ==
    /\ pc[t] = at /\ write_lock_is_free(lock) /\ ~poisoned
    /\ lock' = t
    /\ pc' = [pc EXCEPT ![t] = to]

\* self.0.write() returns Err(PoisonError), its guard is dropped, and
\* .expect("Unable to acquire Write Lock") panics.
AcquireFails(t, at, to) ==
    /\ pc[t] = at /\ write_lock_is_free(lock) /\ poisoned
    /\ pc' = [pc EXCEPT ![t] = to]
    /\ pending' = [pending EXCEPT ![t] = <<>>]
    /\ UNCHANGED <<out, lock, installing, chunk, inflight, lastAcq, nops, buf,
                   calling, poisoned>>
    /\ UNCHANGED localVars

\* A faulty variant of the end of a call (the guard is leaked and the lock
\* stays taken), used to test the properties below.
Release_keeps_lock(t, at, to) ==
    /\ pc[t] = at
    /\ lock' = lock
    /\ pc' = [pc EXCEPT ![t] = to]

\* The write guard goes out of scope at the end of set, reset and write.
Release(t, at, to) ==
    /\ pc[t] = at
    /\ lock' = NoThread
    /\ pc' = [pc EXCEPT ![t] = to]

\* CargoBuildOut::set(cargo_build_out)
CallSet(t, d) ==
    /\ Begin(t, "set:lock")
    /\ installing' = [installing EXCEPT ![t] = d]
    /\ UNCHANGED <<out, lock, chunk, pending, inflight, lastAcq, buf,
                 calling, poisoned>>
    /\ UNCHANGED localVars

SetLock(t) ==
    /\ Acquire(t, "set:lock", "set:store")
    /\ lastAcq' = installing[t]
    /\ UNCHANGED <<out, installing, chunk, pending, inflight, nops, buf,
                 calling, poisoned>>
    /\ UNCHANGED localVars

SetLockFails(t) == AcquireFails(t, "set:lock", "panicked:set")

SetStore(t) ==
    /\ pc[t] = "set:store"
    /\ out' = store(out, installing[t])
    /\ pc' = [pc EXCEPT ![t] = "set:unlock"]
    /\ UNCHANGED <<lock, installing, chunk, pending, inflight, lastAcq, nops, buf,
                 calling, poisoned>>
    /\ UNCHANGED localVars

SetUnlock(t) ==
    /\ Release(t, "set:unlock", "idle")
    /\ UNCHANGED <<out, installing, chunk, pending, inflight, lastAcq, nops, buf,
                 calling, poisoned>>
    /\ UNCHANGED localVars

\* CargoBuildOut::reset()
CallReset(t) ==
    /\ Begin(t, "reset:lock")
    /\ installing' = [installing EXCEPT ![t] = Stdout]
    /\ UNCHANGED <<out, lock, chunk, pending, inflight, lastAcq, buf,
                 calling, poisoned>>
    /\ UNCHANGED localVars

ResetLock(t) ==
    /\ Acquire(t, "reset:lock", "reset:store")
    /\ lastAcq' = installing[t]
    /\ UNCHANGED <<out, installing, chunk, pending, inflight, nops, buf,
                 calling, poisoned>>
    /\ UNCHANGED localVars

ResetLockFails(t) == AcquireFails(t, "reset:lock", "panicked:reset")

ResetStore(t) ==
    /\ pc[t] = "reset:store"
    /\ out' = store(out, Stdout)
    /\ pc' = [pc EXCEPT ![t] = "reset:unlock"]
    /\ UNCHANGED <<lock, installing, chunk, pending, inflight, lastAcq, nops, buf,
                 calling, poisoned>>
    /\ UNCHANGED localVars

ResetUnlock(t) ==
    /\ Release(t, "reset:unlock", "idle")
    /\ UNCHANGED <<out, installing, chunk, pending, inflight, lastAcq, nops, buf,
                 calling, poisoned>>
    /\ UNCHANGED localVars

\* An emitter of functions.rs called with the process-wide sink as its `out`:
\* every chunk of its writeln! is one call of <&CargoBuildOut as Write>::write.
SharedCalls ==
    { Call("warning", <<>>, << <<"a">> >>),
      Call("rerun_if_changed", <<>>, << <<"LICENSE.md">> >>) }

CallEmit(t, c) ==
    /\ Begin(t, "emit")
    /\ pending' = [pending EXCEPT ![t] = Flatten(Outcome(c).w)]
    /\ calling' = [calling EXCEPT ![t] = c]
    /\ UNCHANGED <<out, lock, installing, chunk, inflight, lastAcq, buf, poisoned>>
    /\ UNCHANGED localVars

\* write_all(chunk) -> self.write(chunk)
CallWrite(t) ==
    /\ pc[t] = "emit" /\ pending[t] # <<>>
    /\ chunk' = [chunk EXCEPT ![t] = Head(pending[t])]
    /\ pending' = [pending EXCEPT ![t] = Tail(@)]
    /\ pc' = [pc EXCEPT ![t] = "write:lock"]
    /\ UNCHANGED <<out, lock, installing, inflight, lastAcq, nops, buf,
                 calling, poisoned>>
    /\ UNCHANGED localVars

EmitReturn(t) ==
    /\ pc[t] = "emit" /\ pending[t] = <<>>
    /\ pc' = [pc EXCEPT ![t] = "idle"]
    /\ calling' = [calling EXCEPT ![t] = NoCall]
    /\ UNCHANGED <<out, lock, installing, chunk, pending, inflight, lastAcq, nops, buf,
                 poisoned>>
    /\ UNCHANGED localVars

\* <&CargoBuildOut as Write>::write(buf)
WriteLock(t) ==
    /\ Acquire(t, "write:lock", "write:forward")
    /\ UNCHANGED <<out, installing, chunk, pending, inflight, lastAcq, nops, buf,
                 calling, poisoned>>
    /\ UNCHANGED localVars

WriteLockFails(t) == AcquireFails(t, "write:lock", "panicked:write")

\* out.write(buf) is entered on the destination now installed ...
WriteForward(t) ==
    /\ pc[t] = "write:forward"
    /\ inflight' = [inflight EXCEPT ![t] = out]
    /\ pc' = [pc EXCEPT ![t] = "write:inside"]
    /\ UNCHANGED <<out, lock, installing, chunk, pending, lastAcq, nops, buf,
                 calling, poisoned>>
    /\ UNCHANGED localVars

\* ... and returns with the bytes appended to it.
WriteForwarded(t) ==
    /\ pc[t] = "write:inside"
    /\ buf' = write(buf, inflight[t], chunk[t])
    /\ inflight' = [inflight EXCEPT ![t] = NoThread]
    /\ pc' = [pc EXCEPT ![t] = "write:unlock"]
    /\ UNCHANGED <<out, lock, installing, chunk, pending, lastAcq, nops,
                 calling, poisoned>>
    /\ UNCHANGED localVars

\* ... or panics inside the destination: the guard is dropped by the unwinding
\* thread, which releases the lock and poisons it.
WritePanics(t) ==
    /\ pc[t] = "write:inside"
    /\ poisoned' = poison(poisoned)
    /\ lock' = NoThread
    /\ inflight' = [inflight EXCEPT ![t] = NoThread]
    /\ pending' = [pending EXCEPT ![t] = <<>>]
    /\ pc' = [pc EXCEPT ![t] = "panicked:dest"]
    /\ UNCHANGED <<out, installing, chunk, lastAcq, nops, buf, calling>>
    /\ UNCHANGED localVars

WriteUnlock(t) ==
    /\ Release(t, "write:unlock", "emit")
    /\ UNCHANGED <<out, installing, chunk, pending, inflight, lastAcq, nops, buf,
                 calling, poisoned>>
    /\ UNCHANGED localVars

\* A faulty variant of flush (the flush is forwarded to the installed
\* destination), used to test the properties below.
flush_forwards(f, d) == [f EXCEPT ![d] = TRUE]

\* <&CargoBuildOut as Write>::flush: Ok(()), and nothing else.
flush(f, d) == f

\* A thread calls flush on the process-wide sink: the call takes no lock and
\* returns at once.
CallFlush(t) ==
    /\ pc[t] = "idle" /\ nops < MaxOps
    /\ nops' = nops + 1
    /\ flushed' = flush(flushed, out)
    /\ last' = Did(t, "flush", FALSE)
    /\ UNCHANGED <<sink, buf, ncalls, base, trace, clean, everSet, installed,
                   afterReset, out, lock, pc, installing, chunk, pending, inflight,
                   lastAcq, calling, poisoned>>

NextShared ==
    \E t \in Threads :
        \/ \E d \in Captures : CallSet(t, d)
        \/ SetLock(t)
        \/ SetStore(t)
        \/ SetUnlock(t)
        \/ CallReset(t)
        \/ ResetLock(t)
        \/ ResetStore(t)
        \/ ResetUnlock(t)
        \/ \E c \in SharedCalls : CallEmit(t, c)
        \/ CallWrite(t)
        \/ EmitReturn(t)
        \/ WriteLock(t)
        \/ WriteForward(t)
        \/ WriteForwarded(t)
        \/ WriteUnlock(t)
        \/ SetLockFails(t)
        \/ ResetLockFails(t)
        \/ WriteLockFails(t)
        \/ WritePanics(t)
        \/ CallFlush(t)

SpecShared == Init /\ [][NextShared]_vars

(***************************************************************************)
(* The process-wide sink over destinations whose write returns: set, reset *)
(* and write, scheduled fairly.  A thread that has entered a call goes on  *)
(* running (weak fairness of its own steps), and a thread waiting for the  *)
(* lock gets it when the lock becomes free again and again (strong         *)
(* fairness of RwLock::write).  Nothing obliges a thread to start a call.  *)
(***************************************************************************)
ReturningCalls == { Call("rerun_if_changed", <<>>, << <<"LICENSE.md">> >>) }

ThreadStep(t) ==
    \/ SetStore(t)
    \/ SetUnlock(t)
    \/ ResetStore(t)
    \/ ResetUnlock(t)
    \/ CallWrite(t)
    \/ EmitReturn(t)
    \/ WriteForward(t)
    \/ WriteForwarded(t)
    \/ WriteUnlock(t)

LockStep(t) ==
    \/ SetLock(t)
    \/ ResetLock(t)
    \/ WriteLock(t)

NextReturning ==
    \E t \in Threads :
        \/ \E d \in Captures : CallSet(t, d)
        \/ CallReset(t)
        \/ \E c \in ReturningCalls : CallEmit(t, c)
        \/ LockStep(t)
        \/ ThreadStep(t)

FairReturning ==
    \A t \in Threads : WF_vars(ThreadStep(t)) /\ SF_vars(LockStep(t))

SpecReturning == Init /\ [][NextReturning]_vars /\ FairReturning

(***************************************************************************)
(* The line formats of the wire-format table: text before and after the    *)
(* value of a list instruction.                                            *)
(***************************************************************************)
TablePrefix(fn) ==
    CASE fn = "rerun_if_changed" -> "cargo::rerun-if-changed="
      [] fn = "rerun_if_env_changed" -> "cargo::rerun-if-env-changed="
      [] fn = "rustc_link_arg" -> "cargo::rustc-link-arg="
      [] fn = "rustc_link_arg_benches" -> "cargo::rustc-link-arg-benches="
      [] fn = "rustc_link_arg_bins" -> "cargo::rustc-link-arg-bins="
      [] fn = "rustc_link_arg_cdylib" -> "cargo::rustc-link-arg-cdylib="
      [] fn = "rustc_link_arg_examples" -> "cargo::rustc-link-arg-examples="
      [] fn = "rustc_link_arg_tests" -> "cargo::rustc-link-arg-tests="
      [] fn = "rustc_link_lib" -> "cargo::rustc-link-lib="
      [] fn = "rustc_link_lib_dylib" -> "cargo::rustc-link-lib=dylib="
      [] fn = "rustc_link_lib_static" -> "cargo::rustc-link-lib=static="
      [] fn = "rustc_link_lib_framework" -> "cargo::rustc-link-lib=framework="
      [] fn = "rustc_link_search" -> "cargo::rustc-link-search="
      [] fn = "rustc_link_search_native" -> "cargo::rustc-link-search=native="
      [] fn = "rustc_link_search_dependency" -> "cargo::rustc-link-search=dependency="
      [] fn = "rustc_link_search_crate" -> "cargo::rustc-link-search=crate="
      [] fn = "rustc_link_search_framework" -> "cargo::rustc-link-search=framework="
      [] fn = "rustc_link_search_all" -> "cargo::rustc-link-search=all="
      [] fn = "rustc_flags" -> "cargo::rustc-flags="
      [] fn = "rustc_check_cfgs" -> "cargo::rustc-check-cfg=cfg("
      [] fn = "rustc_env" -> "cargo::rustc-env="
      [] fn = "metadata" -> "cargo::metadata="

TableSuffix(fn) == IF fn = "rustc_check_cfgs" THEN <<")">> ELSE <<>>

\* The lines the table gives for a call: one per value, in order; Shown(fn, v)
\* is the text standing for value v in its line.
RECURSIVE TableLines(_, _, _)
TableLines(Shown(_, _), fn, vals) ==
    IF vals = <<>> THEN <<>>
    ELSE <<TablePrefix(fn)>> \o Shown(fn, Head(vals)) \o TableSuffix(fn) \o <<NL>>
         \o TableLines(Shown, fn, Tail(vals))

Verbatim(fn, v) == v
Lossy(fn, v) == IF fn \in PathListFns THEN display(v) ELSE v

Expected(Shown(_, _), c) ==
    IF c.fn \in ListFns THEN TableLines(Shown, c.fn, c.vals)
    ELSE <<TablePrefix(c.fn)>> \o c.name \o <<"=">> \o c.vals[1] \o <<NL>>

RECURSIVE ExpectedAll(_)
ExpectedAll(calls) ==
    IF calls = <<>> THEN <<>>
    ELSE Expected(Verbatim, Head(calls)) \o ExpectedAll(Tail(calls))

HasNewline(c) ==
    Contains(c.name, NL) \/ \E i \in 1..Len(c.vals) : Contains(c.vals[i], NL)

\* Every value of the call is valid UTF-8.
IsText(c) == \A i \in 1..Len(c.vals) : to_str_is_some(c.vals[i])

\* A step of the thread-local sink that is an emitter call.
EmitStep == ncalls' = ncalls + 1

(***************************************************************************)
(* C1.  After set(capture) on a thread, the capture holds what it held     *)
(* when it was installed followed by the lines of the thread's successful  *)
(* emitter calls since, call after call in call order, the lines of one    *)
(* call in the order of its values (as long as no other thread wrote to    *)
(* the same capture).                                                      *)
(***************************************************************************)
C1_CaptureHoldsCallsInOrder ==
    \A t \in Threads :
        (sink[t] \in Captures /\ clean[t])
            => buf[sink[t]] = base[t] \o ExpectedAll(trace[t])

C1_Witness ==
    \E t \in Threads :
        /\ sink[t] \in Captures /\ clean[t]
        /\ Len(trace[t]) = 3
        /\ trace[t][1].fn = "rustc_env"
        /\ trace[t][2].fn = "rerun_if_changed"
        /\ trace[t][3].fn = "rustc_env"

(***************************************************************************)
(* C2 as claimed.  A value-list emitter given newline-free values writes   *)
(* one line per value, the table's prefix followed by the value itself     *)
(* and a newline; rustc_env and metadata write their one line.             *)
(***************************************************************************)
C2_Case ==
    /\ last.op = "emit" /\ ~HasNewline(last.call)
    /\ last.call.fn \in ListFns \cup {"rustc_env", "metadata"}

C2_LinesAreValuesVerbatim ==
    C2_Case => buf[sink[last.t]] = base[last.t] \o Expected(Verbatim, last.call)

(***************************************************************************)
(* C2 as amended.  The same, where the text of a path in its line is the   *)
(* path as Path::display shows it: the path itself when it is valid        *)
(* UTF-8, and with U+FFFD for every invalid byte otherwise.                *)
(***************************************************************************)
C2_LinesAreValuesAsDisplayed ==
    C2_Case => buf[sink[last.t]] = base[last.t] \o Expected(Lossy, last.call)

C2_Witness ==
    /\ C2_Case
    /\ last.call.fn = "rustc_link_search_native"
    /\ last.call.vals = << <<"b">>, <<"a">> >>
    /\ base[last.t] = OldLine
    /\ buf[sink[last.t]] # base[last.t]

(***************************************************************************)
(* C3.  An emitter call made by a thread whose latest sink operation is    *)
(* reset() leaves every capturing destination as it was.                   *)
(***************************************************************************)
C3_NoCaptureAfterReset ==
    [][\A t \in Threads :
          (afterReset[t] /\ EmitStep /\ last'.t = t)
              => \A c \in Captures : buf'[c] = buf[c]]_vars

C3_Witness ==
    \E t \in Threads :
        /\ everSet[t] /\ afterReset[t]
        /\ last.op = "emit" /\ last.t = t
        /\ Bytes(Outcome(last.call)) # <<>>
        /\ buf[Stdout] # <<>>
        /\ \E c \in Captures : buf[c] # <<>>

(***************************************************************************)
(* C4.  Every emitter call delivers its bytes to exactly one destination,  *)
(* the one its thread installed last: that destination grows by the bytes *)
(* of the call and no other destination changes.                           *)
(***************************************************************************)
C4_OneActiveDestination ==
    [][EmitStep =>
          LET t == last'.t
              bytes == Bytes(Outcome(last'.call))
          IN /\ buf'[installed[t]] = buf[installed[t]] \o bytes
             /\ \A d \in Dests \ {installed[t]} : buf'[d] = buf[d]]_vars

C4_Witness ==
    \E t \in Threads :
        /\ \A u \in Threads \ {t} : ~everSet[u]
        /\ installed[t] = "cap2"
        /\ buf["cap1"] # <<>>
        /\ last.op = "emit" /\ last.t = t
        /\ Bytes(Outcome(last.call)) # <<>>

(***************************************************************************)
(* C5 as claimed.  An emitter call with a newline in any of its values     *)
(* leaves the destination as it was before the call.  Stated for calls    *)
(* whose values are all valid UTF-8, the case of the claim's own example. *)
(***************************************************************************)
C5_NewlineWritesNothing ==
    (last.op = "emit" /\ HasNewline(last.call) /\ IsText(last.call))
        => buf[sink[last.t]] = base[last.t]

(***************************************************************************)
(* C6 as claimed.  An emitter call with a newline in any of its arguments  *)
(* fails.                                                                  *)
(***************************************************************************)
C6_NewlineAlwaysFails ==
    (last.op = "emit" /\ HasNewline(last.call)) => last.panic

(***************************************************************************)
(* C7.  A step of one thread leaves the sink of every other thread as it   *)
(* was; a thread that never called set has standard output installed;      *)
(* and an emitter call changes no destination but the one its own thread   *)
(* installed.                                                              *)
(***************************************************************************)
C7_SinksAreThreadLocal ==
    [][/\ \A u \in Threads \ {last'.t} : sink'[u] = sink[u]
       /\ \A u \in Threads : ~everSet'[u] => sink'[u] = Stdout
       /\ EmitStep => \A d \in Dests \ {installed[last'.t]} : buf'[d] = buf[d]]_vars

C7_Witness ==
    /\ sink["t1"] = "cap1" /\ ~everSet["t2"]
    /\ last.op = "emit" /\ last.t = "t2"
    /\ Bytes(Outcome(last.call)) # <<>>
    /\ buf["cap1"] # <<>>

(***************************************************************************)
(* C8.  Process-wide sink: once every set and reset has returned, the      *)
(* installed destination is the one of the call that acquired the lock     *)
(* last, and every write is forwarded to the destination of the set or     *)
(* reset that acquired the lock last before it, and to no other.           *)
(***************************************************************************)
InSetOrReset(t) ==
    pc[t] \in {"set:lock", "set:store", "set:unlock",
               "reset:lock", "reset:store", "reset:unlock"}

C8_LastWriterWins ==
    [][/\ (\A t \in Threads : ~InSetOrReset(t))' => out' = lastAcq'
       /\ \A d \in Dests : buf'[d] # buf[d] => d = lastAcq]_vars

C8_Witness ==
    /\ \A t \in Threads : pc[t] = "idle"
    /\ installing["t1"] = "cap1" /\ installing["t2"] = "cap2"
    /\ out = "cap2" /\ lastAcq = "cap2"
    /\ buf["cap2"] # <<>>

(***************************************************************************)
(* C9.  Process-wide sink: a thread inside the body of set, reset or       *)
(* write holds the lock; no two threads are inside a destination's write   *)
(* at once; and the destination is not replaced while a thread is inside   *)
(* a destination's write.                                                  *)
(***************************************************************************)
InBody(t) ==
    pc[t] \in {"set:store", "set:unlock", "reset:store", "reset:unlock",
               "write:forward", "write:inside", "write:unlock"}

Writing == {t \in Threads : inflight[t] # NoThread}

C9_LockHeldForWholeBody ==
    [][/\ \A t \in Threads : InBody(t)' => lock' = t
       /\ Cardinality(Writing') <= 1
       /\ Writing # {} => out' = out]_vars

C9_Witness ==
    /\ pc["t1"] = "write:inside" /\ inflight["t1"] = "cap1"
    /\ pc["t2"] = "set:lock" /\ installing["t2"] = "cap2"

(***************************************************************************)
(* C10 as claimed.  Process-wide sink: once every emitter call has         *)
(* returned, every destination holds whole lines only: a prefix, its       *)
(* payload and the newline, next to each other in one destination.         *)
(***************************************************************************)
Prefixes == {"cargo::warning=", "cargo::rerun-if-changed="}

RECURSIVE WholeLines(_)
WholeLines(b) ==
    \/ b = <<>>
    \/ /\ Len(b) >= 2
       /\ b[1] \in Prefixes
       /\ \E k \in 2..Len(b) :
             /\ b[k] = NL
             /\ \A j \in 2..(k - 1) : b[j] \notin Prefixes \cup {NL}
             /\ WholeLines(SubSeq(b, k + 1, Len(b)))

C10_LinesAreContiguous ==
    (\A t \in Threads : pc[t] = "idle") => \A d \in Dests : WholeLines(buf[d])

(***************************************************************************)
(* Reading the latest emitter call of the surface check: what it appended *)
(* to the destination of its thread.                                       *)
(***************************************************************************)
Emitted(fns) == last.op = "emit" /\ last.call.fn \in fns

\* The destination of the latest call holds what it held, then `bytes`.
Appended(bytes) == buf[sink[last.t]] = base[last.t] \o bytes

(***************************************************************************)
(* The lines of a message, read off the positions of its newlines: line i  *)
(* runs from after newline i-1 up to newline i (or the end of the message, *)
(* when text follows the last newline); a line ended by "\r\n" is taken    *)
(* without the "\r".                                                       *)
(***************************************************************************)
NLPos(msg) == {k \in 1..Len(msg) : msg[k] = NL}

KthNL(msg, k) ==
    CHOOSE p \in NLPos(msg) : Cardinality({q \in NLPos(msg) : q <= p}) = k

LineCount(msg) ==
    Cardinality(NLPos(msg)) + (IF msg # <<>> /\ msg[Len(msg)] # NL THEN 1 ELSE 0)

LineOf(msg, i) ==
    LET from == IF i = 1 THEN 1 ELSE KthNL(msg, i - 1) + 1
        ended == i <= Cardinality(NLPos(msg))
        to == IF ended THEN KthNL(msg, i) - 1 ELSE Len(msg)
        raw == SubSeq(msg, from, to)
    IN IF ended /\ raw # <<>> /\ raw[Len(raw)] = CR
       THEN SubSeq(raw, 1, Len(raw) - 1) ELSE raw

MsgPrefix(fn) == IF fn = "error" THEN "cargo::error=" ELSE "cargo::warning="

ExpectedMsg(fn, msg) ==
    Flatten([i \in 1..LineCount(msg) |-> <<MsgPrefix(fn)>> \o LineOf(msg, i) \o <<NL>>])

\* Every line of b starts with the prefix.
EveryLinePrefixed(b, prefix) ==
    \A k \in 1..Len(b) : (k = 1 \/ b[k - 1] = NL) => b[k] = prefix

(***************************************************************************)
(* C15.  error(msg) and warning(msg) write one line per line of msg, in    *)
(* order: the prefix, the i-th line of msg, a newline; and every line      *)
(* they write starts with the prefix.                                      *)
(***************************************************************************)
C15_OneLinePerMessageLine ==
    Emitted({"error", "warning"}) =>
        LET msg == last.call.vals[1]
            written == ExpectedMsg(last.call.fn, msg)
        IN /\ Appended(written)
           /\ EveryLinePrefixed(SubSeq(buf[sink[last.t]], Len(base[last.t]) + 1,
                                       Len(buf[sink[last.t]])),
                                MsgPrefix(last.call.fn))
           /\ ~last.panic

C15_Witness ==
    /\ Emitted({"warning"})
    /\ last.call.vals[1] = <<"a", NL, "a">>
    /\ base[last.t] = OldLine
    /\ Appended(<<"cargo::warning=", "a", NL, "cargo::warning=", "a", NL>>)

(***************************************************************************)
(* C16 as claimed.  Every call of error(msg) writes at least one           *)
(* `cargo::error=` line.                                                   *)
(***************************************************************************)
C16_ErrorAlwaysReports ==
    Emitted({"error"}) =>
        /\ Len(buf[sink[last.t]]) > Len(base[last.t])
        /\ buf[sink[last.t]][Len(base[last.t]) + 1] = "cargo::error="

(***************************************************************************)
(* C17.  rustc_cfg given a name and a value (neither holding a newline)    *)
(* writes `cargo::rustc-cfg=<name>="<value>"` and a newline; given a name  *)
(* only, as a string or as a 1-tuple, it writes `cargo::rustc-cfg=<name>` *)
(* and a newline; rustc_cfg! writes the same for the same name and value.  *)
(***************************************************************************)
RustcCfgFns == {"rustc_cfg(&str)", "rustc_cfg((&str, &str))", "rustc_cfg((&str,))",
                "rustc_cfg!"}

C17_Case == Emitted(RustcCfgFns) /\ ~HasNewline(last.call)

ValuesText(vals) ==
    Flatten([i \in 1..Len(vals) |->
                (IF i > 1 THEN <<",", " ">> ELSE <<>>)
                \o <<QUOTE>> \o vals[i] \o <<QUOTE>>])

ExpectedCheckCfg(name, vals) ==
    IF vals = <<>>
    THEN <<"cargo::rustc-check-cfg=cfg(">> \o name \o <<")", NL>>
    ELSE <<"cargo::rustc-check-cfg=cfg(">> \o name \o <<",", " ", "values(">>
         \o ValuesText(vals) \o <<")", ")", NL>>

C18_Case == Emitted({"rustc_check_cfg", "rustc_check_cfg!"}) /\ ~HasNewline(last.call)

C18_CheckCfgLine ==
    C18_Case =>
        /\ ~last.panic
        /\ Appended(ExpectedCheckCfg(last.call.name, last.call.vals))

C18_Witness ==
    /\ C18_Case
    /\ last.call.fn = "rustc_check_cfg!"
    /\ last.call.name = <<"a">> /\ last.call.vals = << <<>>, <<"b">> >>
    /\ buf[sink[last.t]] # base[last.t]

(***************************************************************************)
(* The function that stands for a macro call: the function of the same     *)
(* instruction, given the texts of the macro's segments that hold tokens.  *)
(***************************************************************************)
RECURSIVE Texts(_)
Texts(segments) ==
    IF segments = <<>> THEN <<>>
    ELSE Head(segments) \o Texts(Tail(segments))

FunctionOf(c) ==
    CASE c.fn = "rerun_if_changed!" -> Call("rerun_if_changed", <<>>, Texts(c.vals))
      [] c.fn = "rerun_if_env_changed!" -> Call("rerun_if_env_changed", <<>>, Texts(c.vals))
      [] c.fn = "rustc_link_arg!" ->
            IF c.arm = "" THEN Call("rustc_link_arg", <<>>, Texts(c.vals))
            ELSE IF c.arm = "bin" THEN Call("rustc_link_arg_bin", c.name, Texts(c.vals))
            ELSE Call(CASE c.arm = "benches" -> "rustc_link_arg_benches"
                        [] c.arm = "bins" -> "rustc_link_arg_bins"
                        [] c.arm = "cdylib" -> "rustc_link_arg_cdylib"
                        [] c.arm = "examples" -> "rustc_link_arg_examples"
                        [] c.arm = "tests" -> "rustc_link_arg_tests",
                      <<>>, Texts(c.vals))
      [] c.fn = "rustc_link_lib!" ->
            Call(CASE c.arm = "" -> "rustc_link_lib"
                   [] c.arm = "static" -> "rustc_link_lib_static"
                   [] c.arm = "dylib" -> "rustc_link_lib_dylib"
                   [] c.arm = "framework" -> "rustc_link_lib_framework",
                 <<>>, Texts(c.vals))
      [] c.fn = "rustc_link_search!" ->
            Call(CASE c.arm = "" -> "rustc_link_search"
                   [] c.arm = "framework" -> "rustc_link_search_framework"
                   [] c.arm = "native" -> "rustc_link_search_native"
                   [] c.arm = "crate" -> "rustc_link_search_crate"
                   [] c.arm = "dependency" -> "rustc_link_search_dependency"
                   [] c.arm = "all" -> "rustc_link_search_all",
                 <<>>, Texts(c.vals))
      [] c.fn = "rustc_cfg!" -> Call("rustc_cfg", c.name, c.vals)
      [] c.fn = "rustc_check_cfg!" -> Call("rustc_check_cfg", c.name, c.vals)
      [] c.fn = "rustc_check_cfgs!" -> Call("rustc_check_cfgs", <<>>, c.vals)
      [] c.fn = "rustc_env!" -> Call("rustc_env", c.name, c.vals)
      [] c.fn = "metadata!" -> Call("metadata", c.name, c.vals)
      [] c.fn = "warning!" -> Call("warning", <<>>, c.vals)
      [] c.fn = "error!" -> Call("error", <<>>, c.vals)

MacroFns == {"rerun_if_changed!", "rerun_if_env_changed!", "rustc_link_arg!",
             "rustc_link_lib!", "rustc_link_search!", "rustc_cfg!",
             "rustc_check_cfg!", "rustc_check_cfgs!", "rustc_env!", "metadata!",
             "warning!", "error!"}

\* The same bytes whatever the pieces they were written in: a literal that
\* the macros write in two pieces is taken apart.
Pieces(token) ==
    CASE token = "cargo::rustc-link-lib=static=" -> <<"cargo::rustc-link-lib=static", "=">>
      [] token = "cargo::rustc-link-lib=dylib=" -> <<"cargo::rustc-link-lib=dylib", "=">>
      [] token = "cargo::rustc-link-lib=framework=" ->
            <<"cargo::rustc-link-lib=framework", "=">>
      [] OTHER -> <<token>>

SameBytes(b1, b2) ==
    Flatten([i \in 1..Len(b1) |-> Pieces(b1[i])])
        = Flatten([i \in 1..Len(b2) |-> Pieces(b2[i])])

(***************************************************************************)
(* C19 as claimed.  A macro given the text s leaves in the sink what the   *)
(* function of the same instruction given s leaves there, and fails when   *)
(* and only when the function does.                                        *)
(***************************************************************************)
C19_MacroEqualsFunction ==
    (Emitted(MacroFns) /\ last.call.mods = <<>>) =>
        LET f == Outcome(FunctionOf(last.call))
        IN /\ SameBytes(buf[sink[last.t]], base[last.t] \o Bytes(f))
           /\ last.panic = f.panic

(***************************************************************************)
(* C20.  A list macro writes, for every segment that holds tokens and in   *)
(* the order of the segments, the prefix of its arm, the text of the       *)
(* segment and a newline, and nothing for a segment without tokens: given  *)
(* no segment it writes nothing, and given a last segment without tokens   *)
(* (a trailing `;`) it writes what it writes without that segment.         *)
(***************************************************************************)
ListMacroFns == {"rerun_if_changed!", "rerun_if_env_changed!", "rustc_link_arg!",
                 "rustc_link_lib!", "rustc_link_search!"}

ModsText(mods) ==
    Flatten([i \in 1..Len(mods) |-> <<(IF i = 1 THEN ":" ELSE ","), mods[i]>>])

ArmPrefix(c) ==
    CASE c.fn = "rerun_if_changed!" -> <<"cargo::rerun-if-changed=">>
      [] c.fn = "rerun_if_env_changed!" -> <<"cargo::rerun-if-env-changed=">>
      [] c.fn = "rustc_link_arg!" ->
            (CASE c.arm = "" -> <<"cargo::rustc-link-arg=">>
               [] c.arm = "benches" -> <<"cargo::rustc-link-arg-benches=">>
               [] c.arm = "bins" -> <<"cargo::rustc-link-arg-bins=">>
               [] c.arm = "bin" -> <<"cargo::rustc-link-arg-bin=">> \o c.name \o <<"=">>
               [] c.arm = "cdylib" -> <<"cargo::rustc-link-arg-cdylib=">>
               [] c.arm = "examples" -> <<"cargo::rustc-link-arg-examples=">>
               [] c.arm = "tests" -> <<"cargo::rustc-link-arg-tests=">>)
      [] c.fn = "rustc_link_lib!" ->
            (CASE c.arm = "" -> <<"cargo::rustc-link-lib=">>
               [] c.arm = "static" ->
                     <<"cargo::rustc-link-lib=static">> \o ModsText(c.mods) \o <<"=">>
               [] c.arm = "dylib" ->
                     <<"cargo::rustc-link-lib=dylib">> \o ModsText(c.mods) \o <<"=">>
               [] c.arm = "framework" ->
                     <<"cargo::rustc-link-lib=framework">> \o ModsText(c.mods) \o <<"=">>)
      [] c.fn = "rustc_link_search!" ->
            (CASE c.arm = "" -> <<"cargo::rustc-link-search=">>
               [] c.arm = "framework" -> <<"cargo::rustc-link-search=framework=">>
               [] c.arm = "native" -> <<"cargo::rustc-link-search=native=">>
               [] c.arm = "crate" -> <<"cargo::rustc-link-search=crate=">>
               [] c.arm = "dependency" -> <<"cargo::rustc-link-search=dependency=">>
               [] c.arm = "all" -> <<"cargo::rustc-link-search=all=">>)

ExpectedSegments(c) ==
    Flatten([i \in 1..Len(c.vals) |->
                IF c.vals[i] = <<>> THEN <<>>
                ELSE ArmPrefix(c) \o c.vals[i][1] \o <<NL>>])

WithoutLast(c) == [c EXCEPT !.vals = SubSeq(@, 1, Len(@) - 1)]

C20_OneLinePerSegment ==
    Emitted(ListMacroFns) =>
        /\ ~last.panic
        /\ Appended(ExpectedSegments(last.call))
        /\ last.call.vals = <<>> => buf[sink[last.t]] = base[last.t]
        /\ (last.call.vals # <<>> /\ last.call.vals[Len(last.call.vals)] = <<>>)
              => Appended(Bytes(Outcome(WithoutLast(last.call))))

C20_Witness ==
    /\ Emitted({"rustc_link_lib!"})
    /\ last.call.arm = "static" /\ last.call.mods = <<>>
    /\ last.call.vals = << <<(<<"a">>)>>, <<(<<"b">>)>>, <<>> >>
    /\ base[last.t] = OldLine
    /\ Appended(<<"cargo::rustc-link-lib=static", "=", "a", NL,
                  "cargo::rustc-link-lib=static", "=", "b", NL>>)

(***************************************************************************)
(* C13.  Process-wide sink: a destination that panics inside its write     *)
(* poisons the lock; the lock stays poisoned for ever; and from then on    *)
(* every set, reset and write that reaches the lock panics there, without  *)
(* holding the lock and without changing the installed destination or the  *)
(* content of any destination.                                             *)
(***************************************************************************)
Panicked(at) ==
    CASE at = "set:lock" -> "panicked:set"
      [] at = "reset:lock" -> "panicked:reset"
      [] at = "write:lock" -> "panicked:write"

C13_PoisonedLockFailsEveryCall ==
    [][/\ \A t \in Threads :
             (pc[t] = "write:inside" /\ pc'[t] = "panicked:dest") => poisoned'
       /\ poisoned => /\ poisoned'
                      /\ out' = out /\ buf' = buf /\ lock' = NoThread
       /\ \A t \in Threads :
             (poisoned /\ pc[t] \in {"set:lock", "reset:lock", "write:lock"}
                       /\ pc'[t] # pc[t])
                => pc'[t] = Panicked(pc[t])]_vars

C13_Witness ==
    /\ poisoned
    /\ pc["t1"] = "panicked:dest" /\ out = "cap1"
    /\ pc["t2"] = "panicked:reset"

(***************************************************************************)
(* C11 as claimed.  Thread-local sinks that forward to one destination,    *)
(* every write!/writeln! being one append: once every call has returned,   *)
(* none having failed, every destination holds whole lines only, each a    *)
(* prefix, its payload and the newline of one call.                        *)
(***************************************************************************)
StepPrefixes == {"cargo::warning=", "cargo::rustc-link-arg=",
                 "cargo::rerun-if-env-changed="}

RECURSIVE WholeLinesOf(_, _)
WholeLinesOf(prefixes, b) ==
    \/ b = <<>>
    \/ /\ Len(b) >= 2
       /\ b[1] \in prefixes
       /\ \E k \in 2..Len(b) :
             /\ b[k] = NL
             /\ \A j \in 2..(k - 1) : b[j] \notin prefixes \cup {NL}
             /\ WholeLinesOf(prefixes, SubSeq(b, k + 1, Len(b)))

C11_OnlyWholeLines ==
    (\A t \in Threads : pc[t] = "idle" /\ clean[t])
        => \A d \in Dests : WholeLinesOf(StepPrefixes, buf[d])

(***************************************************************************)
(* C12.  Thread-local sink: when the destination refuses a write of an     *)
(* emitter call, the call panics there: it makes no further write (the     *)
(* refused one is not made again, the lines of the remaining values are    *)
(* not attempted), its thread does nothing more until the panic is caught, *)
(* the catch writes nothing, and what the destination received before      *)
(* stays in it.  (A write answered with ErrorKind::Interrupted is not      *)
(* refused: write_all makes it again.)                                     *)
(***************************************************************************)
IsPrefixOf(b1, b2) == Len(b1) <= Len(b2) /\ SubSeq(b2, 1, Len(b1)) = b1

C12_RefusedWriteIsFatal ==
    [][/\ \A t \in Threads :
             (pc[t] = "emit" /\ last'.op = "rejected" /\ last'.t = t)
                => /\ pc'[t] = "panicked" /\ last'.panic
                   /\ pending'[t] = <<>>
       /\ \A t \in Threads :
             pc[t] = "panicked"
                => /\ pending'[t] = <<>>
                   /\ pc'[t] # "panicked" => (last'.op = "catch" /\ buf' = buf)
                   /\ pc'[t] = "panicked" => last'.t # t
       /\ \A d \in Dests : IsPrefixOf(buf[d], buf'[d])]_vars

C12_Witness ==
    \E t \in Threads :
        /\ last.op = "rejected" /\ last.t = t /\ pc[t] = "panicked"
        /\ calling[t].fn = "rustc_link_arg"
        /\ sink[t] = "cap1"
        /\ buf["cap1"] = <<"cargo::rustc-link-arg=", "a", NL, "cargo::rustc-link-arg=">>

(***************************************************************************)
(* C14 as claimed.  Every call of set and of reset returns with its        *)
(* destination installed.                                                  *)
(***************************************************************************)
C14_SetAndResetAlwaysSucceed ==
    last.op \in {"set", "reset"}
        => ~last.panic /\ sink[last.t] = installing[last.t]

(***************************************************************************)
(* C21.  rustc_link_lib! with a kind writes, for every library segment     *)
(* that holds tokens and in order, `cargo::rustc-link-lib=<kind>`, then    *)
(* `:` and the modifiers with `,` between them when modifiers are given,   *)
(* then `=`, the library and a newline: kind and modifiers stand on every  *)
(* line, and there are as many lines as segments holding tokens (for       *)
(* libraries without a newline in them).                                   *)
(***************************************************************************)
KindLiteral(kind) ==
    CASE kind = "static" -> "cargo::rustc-link-lib=static"
      [] kind = "dylib" -> "cargo::rustc-link-lib=dylib"
      [] kind = "framework" -> "cargo::rustc-link-lib=framework"

RECURSIVE CommaJoined(_)
CommaJoined(mods) ==
    IF Len(mods) = 1 THEN <<mods[1]>>
    ELSE <<mods[1], ",">> \o CommaJoined(Tail(mods))

KindAndModifiers(kind, mods) ==
    <<KindLiteral(kind)>>
    \o (IF mods = <<>> THEN <<>> ELSE <<":">> \o CommaJoined(mods))
    \o <<"=">>

RECURSIVE LinkLibLines(_, _, _)
LinkLibLines(kind, mods, libs) ==
    IF libs = <<>> THEN <<>>
    ELSE KindAndModifiers(kind, mods) \o Head(libs) \o <<NL>>
         \o LinkLibLines(kind, mods, Tail(libs))

NewlineCount(b) == Cardinality({k \in 1..Len(b) : b[k] = NL})

C21_Case == Emitted({"rustc_link_lib!"}) /\ last.call.arm # ""

C21_KindAndModifiersOnEveryLine ==
    C21_Case =>
        LET libs == Texts(last.call.vals)
            written == SubSeq(buf[sink[last.t]], Len(base[last.t]) + 1,
                              Len(buf[sink[last.t]]))
        IN /\ ~last.panic
           /\ Appended(LinkLibLines(last.call.arm, last.call.mods, libs))
           /\ (\A i \in 1..Len(libs) : ~Contains(libs[i], NL))
                 => NewlineCount(written) = Len(libs)

C21_Witness ==
    /\ C21_Case
    /\ last.call.arm = "dylib"
    /\ last.call.mods = <<"+whole-archive", "+verbatim", "+bundle">>
    /\ last.call.vals = << <<(<<"a">>)>>, <<>>, <<(<<"b">>)>> >>
    /\ Appended(<<"cargo::rustc-link-lib=dylib",
                  ":", "+whole-archive", ",", "+verbatim", ",", "+bundle", "=", "a", NL,
                  "cargo::rustc-link-lib=dylib",
                  ":", "+whole-archive", ",", "+verbatim", ",", "+bundle", "=", "b", NL>>)

(***************************************************************************)
(* C22.  rustc_link_arg_bin(bin, flags), given a bin name and flags        *)
(* without newlines, and rustc_link_arg!(bin "b": ..) write one line       *)
(* `cargo::rustc-link-arg-bin=<bin>=<flag>` per flag, in order, the bin    *)
(* name on every line; on a thread that never called set the bytes go to   *)
(* standard output and are those of one println! per line.                 *)
(***************************************************************************)
C22_Case ==
    \/ Emitted({"rustc_link_arg_bin"}) /\ ~HasNewline(last.call)
    \/ Emitted({"rustc_link_arg!"}) /\ last.call.arm = "bin"

PrintedLines(bin, flags) ==
    Flatten([i \in 1..Len(flags) |->
                Flatten(println(<<"cargo::rustc-link-arg-bin=">> \o bin \o <<"=">>
                                \o flags[i]))])

C22_LinkArgBinAsPrintln ==
    C22_Case =>
        LET flags == IF last.call.fn = "rustc_link_arg_bin" THEN last.call.vals
                     ELSE Texts(last.call.vals)
            printed == PrintedLines(last.call.name, flags)
        IN /\ ~last.panic
           /\ Appended(printed)
           /\ ~everSet[last.t] =>
                 /\ buf[Stdout] = base[last.t] \o printed
                 /\ \A c \in Captures : buf[c] = base[last.t]

C22_Witness ==
    /\ Emitted({"rustc_link_arg_bin"})
    /\ last.call.name = <<"b">> /\ last.call.vals = << <<"a">>, <<"b">> >>
    /\ ~everSet[last.t] /\ base[last.t] = OldLine
    /\ buf[Stdout] = OldLine \o <<"cargo::rustc-link-arg-bin=", "b", "=", "a", NL,
                                  "cargo::rustc-link-arg-bin=", "b", "=", "b", NL>>

(***************************************************************************)
(* C23 as claimed.  rustc_link_lib_static, _dylib and _framework given     *)
(* `:MODIFIERS=NAME[:RENAME]` write `cargo::rustc-link-lib=<kind>` followed *)
(* by the argument as it is and a newline, and given a plain NAME they     *)
(* write `cargo::rustc-link-lib=<kind>=NAME` and a newline.                *)
(***************************************************************************)
KindOf(fn) ==
    CASE fn = "rustc_link_lib_static" -> "static"
      [] fn = "rustc_link_lib_dylib" -> "dylib"
      [] fn = "rustc_link_lib_framework" -> "framework"

LinkLibLine(kind, lib) ==
    <<KindLiteral(kind)>>
    \o (IF lib[1] = ":" THEN lib ELSE <<"=">> \o lib)
    \o <<NL>>

C23_KindFunctionsTakeModifiers ==
    Emitted({"rustc_link_lib_static", "rustc_link_lib_dylib",
             "rustc_link_lib_framework"}) =>
        SameBytes(buf[sink[last.t]],
                  base[last.t]
                  \o Flatten([i \in 1..Len(last.call.vals) |->
                                 LinkLibLine(KindOf(last.call.fn), last.call.vals[i])]))

(***************************************************************************)
(* C24.  Process-wide sink: no step of set or reset changes what any       *)
(* destination has received, the old one and the new one included; no      *)
(* step at all calls the flush of a destination; and flush on the sink     *)
(* returns at once, leaving the destinations, the installed destination    *)
(* and the lock as they were.                                              *)
(***************************************************************************)
C24_InstallingEmitsNothing ==
    [][/\ \A t \in Threads :
             ((InSetOrReset(t) \/ InSetOrReset(t)') /\ pc'[t] # pc[t])
                => buf' = buf
       /\ flushed' = flushed
       /\ (last'.op = "flush" /\ nops' = nops + 1 /\ pc' = pc)
             => (buf' = buf /\ out' = out /\ lock' = lock)]_vars

C24_Witness ==
    /\ last.op = "flush"
    /\ \A t \in Threads : pc[t] = "idle"
    /\ out = "cap2" /\ buf[Stdout] # <<>> /\ buf["cap2"] = <<>>

(***************************************************************************)
(* C25.  reset() by a thread whose latest set or reset was a reset, and    *)
(* reset() by a thread that never called set, leave every sink and every   *)
(* destination as they were; and the emitter calls of a thread that never  *)
(* called set go to standard output, with or without a reset() before.     *)
(***************************************************************************)
C25_ResetIsIdempotent ==
    [][\A t \in Threads :
          /\ (last'.op = "reset" /\ last'.t = t /\ (afterReset[t] \/ ~everSet[t]))
                => (sink' = sink /\ buf' = buf)
          /\ (EmitStep /\ last'.t = t /\ ~everSet[t])
                => /\ buf'[Stdout] = buf[Stdout] \o Bytes(Outcome(last'.call))
                   /\ \A c \in Captures : buf'[c] = buf[c]]_vars

C25_Witness ==
    \E t \in Threads :
        /\ ~everSet[t] /\ afterReset[t]
        /\ last.op = "emit" /\ last.t = t
        /\ Bytes(Outcome(last.call)) # <<>>
        /\ buf[Stdout] = Bytes(Outcome(last.call))
        /\ \E u \in Threads : sink[u] = "cap1"

(***************************************************************************)
(* C26.  Process-wide sink: a thread calls set(capture) on the fresh sink  *)
(* and then rerun_if_changed([p]), no other call being made; when the      *)
(* call returns ...                                                        *)
(***************************************************************************)
C26_Case(t) ==
    /\ pc[t] = "emit" /\ pc'[t] = "idle"
    /\ nops = 2 /\ installing[t] \in Captures
    /\ calling[t].fn = "rerun_if_changed" /\ Len(calling[t].vals) = 1

C27_FailedEmissionLeavesSink ==
    [][\A t \in Threads :
          /\ (pc[t] # "panicked" /\ pc'[t] = "panicked") => sink' = sink
          /\ (pc[t] = "panicked" /\ pc'[t] # "panicked")
                => /\ ~borrowed(t)' /\ pending'[t] = <<>>
                   /\ sink' = sink /\ buf' = buf
          /\ (pc[t] = "idle" /\ last'.t = t /\ last'.op \in {"set", "reset"})
                => (~last'.panic /\ sink'[t] = installing'[t])
          /\ (pc[t] = "idle" /\ last'.t = t /\ last'.op = "call")
                => /\ ~last'.panic /\ pc'[t] = "emit"
                   /\ pending'[t] = Outcome(last'.call).w]_vars

C27_Witness ==
    \E t \in Threads :
        /\ pc[t] = "idle" /\ ~clean[t]
        /\ calling[t].fn = "warning"
        /\ buf[Stdout] = <<"cargo::rustc-link-arg=", "a", NL, "cargo::rustc-link-arg=",
                         "cargo::warning=", "b", NL>>

(***************************************************************************)
(* C29 as claimed.  No emitter call fails on the borrow of the cell.       *)
(***************************************************************************)
C29_NeverBorrowedTwice ==
    last.op = "call" => ~last.panic

(***************************************************************************)
(* C28 as claimed.  After a call of a function emitter, failed or not,     *)
(* the destination holds complete lines only: it is empty or ends with a   *)
(* newline, and every line in it starts with a `cargo::` literal, so no    *)
(* payload holds a newline.                                                *)
(***************************************************************************)
CargoLiterals ==
    {TablePrefix(fn) : fn \in ListFns \cup {"rustc_env", "metadata"}}
    \cup {"cargo::rustc-link-arg-bin=", "cargo::rustc-cfg=",
          "cargo::rustc-check-cfg=cfg(", "cargo::warning=", "cargo::error="}

CompleteLines(b) ==
    /\ b = <<>> \/ b[Len(b)] = NL
    /\ \A k \in 1..Len(b) : (k = 1 \/ b[k - 1] = NL) => b[k] \in CargoLiterals

C28_OnlyCompleteCargoLines ==
    last.op = "emit" => CompleteLines(buf[sink[last.t]])

(***************************************************************************)
(* C30.  In the process-wide sink, over destinations whose write returns,  *)
(* every call of set, reset and write that a thread has entered returns    *)
(* under fair scheduling, with the lock no longer held by that thread.     *)
(***************************************************************************)
C30_EveryCallReturns ==
    \A t \in Threads :
        (pc[t] # "idle" \/ lock = t) ~> (pc[t] = "idle" /\ lock # t)

\* Two threads wrote through the sink at the same time, each waiting for the
\* other's write to release the lock, and both calls have returned.
C30_Witness ==
    /\ \A t \in Threads : pc[t] = "idle"
    /\ lock = NoThread
    /\ buf[Stdout] = <<"cargo::rerun-if-changed=", "cargo::rerun-if-changed=",
                       "LICENSE.md", "LICENSE.md", NL, NL>>

=============================================================================
